---- MODULE Spec2Model ----
(***************************************************************************)
(* A model of ping_client.py: the PingClient message codec                 *)
(* (build_message, calculate_checksum, bit_flip), the probe thread         *)
(* (send_ping) and the scheduler (run, summary_statistics).                *)
(*                                                                         *)
(* Time is a discrete clock `now` (one tick = one unit of the period and   *)
(* timeout arguments).  Computation takes no time: the clock advances only *)
(* when every thread is blocked (a Timer waiting for its interval, a       *)
(* recvfrom waiting for a datagram or its timeout, run() waiting in        *)
(* join), and never past a pending deadline.  All interleavings of the     *)
(* threads that are runnable at one instant are explored.                  *)
(***************************************************************************)
EXTENDS Integers, Sequences, FiniteSets, Bags, TLC

(* ---------------------------- bounds ----------------------------------- *)
MaxCount == 3       \* largest probe count (argv[3]) explored
MaxPeriod == 2      \* the period explored, in ticks (argv[4])
MaxTimeout == 3     \* the longer timeout explored, in ticks (argv[5])

(* ----------------------- program constants ----------------------------- *)
MsgType == 8        \* msg_type, echo request
AllOnes == 65535    \* 0xffff

Word == 65536       \* 2^16: `& 0xffff` is `% Word`, `>> 16` is `\div Word`
MsgLen == 1 + 1 + 2 + 2 + 2 + 6   \* type, code, checksum, identifier, seqno, timestamp

(* A 48-bit timestamp does not fit TLC's 32-bit integers: it is kept as    *)
(* the pair of its high and low 24-bit halves, value = hi * 2^24 + lo.     *)
TsOk  == [hi |-> 91908, lo |-> 13885872]    \* 1541974254000 ms
TsBad == [hi |-> 91908, lo |-> 13886254]    \* 1541974254382 ms
TsAlt == [hi |-> 91874, lo |-> 15952010]    \* 1541405894794 ms
TsMax == [hi |-> 16777215, lo |-> 16777215] \* 2^48 - 1

(* Inputs explored: every count up to MaxCount, and a timeout below and a *)
(* timeout above the period (MaxPeriod > 1, MaxTimeout > MaxPeriod).      *)
Counts == 0..MaxCount
Periods == {MaxPeriod}
Timeouts == {1, MaxTimeout}
Pids == {3737}
Timestamps == {TsOk, TsBad}
ReplyFlipBits == {16, 63}

CodecPids == {0, 1, 3737, 65535, 69273}
CodecSeqs == 1..(MaxCount + 1)
CodecTimestamps == {TsOk, TsBad, TsAlt, TsMax}
SampleReplies ==
  { [i \in 1..MsgLen |-> 0],
    [i \in 1..MsgLen |-> 255],
    [i \in 1..MsgLen |-> IF i = 1 THEN 255 ELSE IF i = 2 THEN 254 ELSE 0],
    <<0, 0, 241, 101, 14, 153, 0, 1>> }

VARIABLES
  \* PingClient fields (__init__)
  count, period, timeout, total_start, total_end,
  request_count, reply_count, rtt_list, thread_list,
  \* the environment of a run
  pid, now,
  \* run(): position, local seq_num, index of the thread being joined
  rpc, seq_num, jidx,
  \* one entry per thread: position, argument, deadline, locals of send_ping
  tpc, targ, deadline, request_msg, start_time, data, rtt, tmp, sock,
  \* how each probe ended: "Replied", "ChecksumInvalid", "TimedOut", or
  \* "none" while it has not (a record of the path taken through send_ping)
  outcome,
  \* the lines the probes printed (a bag: the order of the lines of
  \* different threads is not kept), the summary blocks printed, and the
  \* order in which send_ping was entered
  console, summaries, entered,
  \* the codec exercised alone
  cstage, cin, cmsg

vars == <<count, period, timeout, total_start, total_end,
          request_count, reply_count, rtt_list, thread_list,
          pid, now, rpc, seq_num, jidx,
          tpc, targ, deadline, request_msg, start_time, data, rtt, tmp, sock,
          outcome, console, summaries, entered, cstage, cin, cmsg>>

runVars == <<count, period, timeout, total_start, total_end,
             request_count, reply_count, rtt_list, thread_list,
             pid, now, rpc, seq_num, jidx,
             tpc, targ, deadline, request_msg, start_time, data, rtt, tmp, sock,
             outcome, console, summaries, entered>>

codecVars == <<cstage, cin, cmsg>>

(* ============================ Message codec ============================ *)

RECURSIVE Pow256(_)
Pow256(n) == IF n = 0 THEN 1 ELSE 256 * Pow256(n - 1)

\* int.to_bytes(n, byteorder='big') raises OverflowError for a negative
\* value or one that needs more than n bytes (n <= 3 here).
CanToBytes(v, n) == v >= 0 /\ v < Pow256(n)

ToBytes(v, n) == [i \in 1..n |-> (v \div Pow256(n - i)) % 256]

\* int.from_bytes(b, byteorder='big') of a slice; a short slice reads what
\* is there.
RECURSIVE FromBytes(_)
FromBytes(b) ==
  IF Len(b) = 0 THEN 0 ELSE FromBytes(SubSeq(b, 1, Len(b) - 1)) * 256 + b[Len(b)]

\* int(time.time() * 1000).to_bytes(6, byteorder='big')
TimestampBytes(ts) == ToBytes(ts.hi, 3) \o ToBytes(ts.lo, 3)

\* The loop of calculate_checksum: for i in range(0, len(message)-1, 2),
\* with i the 1-based index of message[i].  `+` binds tighter than `<<`, so
\* w = (message[i] + (message[i+1] << 8)) << 8.
RECURSIVE checksum_loop(_, _, _)
checksum_loop(message, i, s) ==
  IF i >= Len(message)
  THEN s
  ELSE LET w == (message[i] + message[i + 1] * 256) * 256
           t == w + s
       IN  checksum_loop(message, i + 2, (t % Word) + (t \div Word))

\* calculate_checksum with the carry dropped instead of folded back:
\* s = (w + s) & 0xffff
calculate_checksum_nofold(message) ==
  LET RECURSIVE loop(_, _)
      loop(i, s) ==
        IF i >= Len(message)
        THEN s
        ELSE LET w == (message[i] + message[i + 1] * 256) * 256
             IN  loop(i + 2, (w + s) % Word)
  IN  loop(1, 0)

calculate_checksum(message) == checksum_loop(message, 1, 0)

bit_flip(checksum) == AllOnes - checksum

\* The 14 bytes build_message assembles around a 2-byte checksum field.
Assemble(checksum, identifier, seq, timestamp) ==
  <<MsgType, 0>> \o checksum \o identifier \o seq \o timestamp

\* The draft of build_message: `msg`, with the checksum field zero
\* (seq_num fits its two bytes).
draft_message(seqno, p, ts) ==
  Assemble(ToBytes(0, 2), ToBytes(p % Word, 2), ToBytes(seqno, 2),
           TimestampBytes(ts))

\* build_message(seq_num): [ok |-> TRUE, msg |-> final_msg], or ok = FALSE
\* when one of its to_bytes calls raises OverflowError.
build_message(seqno, p, ts) ==
  LET identifier == ToBytes(p % Word, 2)
      seq == ToBytes(seqno, 2)
      msg == Assemble(ToBytes(0, 2), identifier, seq, TimestampBytes(ts))
      checksum == bit_flip(calculate_checksum(msg))
  IN  IF ~CanToBytes(seqno, 2) \/ ~CanToBytes(checksum, 2)
      THEN [ok |-> FALSE, msg |-> <<>>]
      ELSE [ok |-> TRUE,
            msg |-> Assemble(ToBytes(checksum, 2), identifier, seq,
                             TimestampBytes(ts))]

\* The validity test of send_ping: `server_checksum != 65535` is a failure.
ValidReply(d) == calculate_checksum(d) = AllOnes

\* int.from_bytes(data[6:8], byteorder='big')
ServerSeqNum(d) ==
  FromBytes(SubSeq(d, IF Len(d) < 7 THEN Len(d) + 1 ELSE 7,
                      IF Len(d) < 8 THEN Len(d) ELSE 8))

\* Bit b (0 = most significant bit of the first byte) of a message inverted.
FlipBit(m, b) ==
  LET i == (b \div 8) + 1
      v == IF (b % 8) = 0 THEN 128 ELSE IF (b % 8) = 1 THEN 64
           ELSE IF (b % 8) = 2 THEN 32 ELSE IF (b % 8) = 3 THEN 16
           ELSE IF (b % 8) = 4 THEN 8 ELSE IF (b % 8) = 5 THEN 4
           ELSE IF (b % 8) = 6 THEN 2 ELSE 1
  IN  [m EXCEPT ![i] = IF (m[i] \div v) % 2 = 1 THEN m[i] - v ELSE m[i] + v]

(* ---------------- the codec exercised on its own ----------------------- *)

CodecIdle ==
  /\ cstage = "off"
  /\ cin = [seq |-> 0, pid |-> 0, ts |-> TsOk]
  /\ cmsg = <<>>

CodecInit ==
  /\ cstage = "input"
  /\ cin \in [seq : CodecSeqs, pid : CodecPids, ts : CodecTimestamps]
  /\ cmsg = <<>>

\* build_message on the drawn inputs
CodecBuild ==
  /\ cstage = "input"
  /\ LET r == build_message(cin.seq, cin.pid, cin.ts)
     IN  /\ cstage' = IF r.ok THEN "built" ELSE "raised"
         /\ cmsg' = r.msg
  /\ UNCHANGED <<cin, runVars>>

\* the draft of build_message, on which it calls calculate_checksum
CodecDraft ==
  /\ cstage = "input"
  /\ CanToBytes(cin.seq, 2)
  /\ cmsg' = draft_message(cin.seq, cin.pid, cin.ts)
  /\ cstage' = "draft"
  /\ UNCHANGED <<cin, runVars>>

\* a datagram that is no echo of a request
CodecReceive ==
  /\ cstage = "input"
  /\ \E d \in SampleReplies : cmsg' = d
  /\ cstage' = "received"
  /\ UNCHANGED <<cin, runVars>>

\* one bit of the built message inverted on the way back
CodecCorrupt ==
  /\ cstage = "built"
  /\ \E b \in 0..(8 * Len(cmsg) - 1) : cmsg' = FlipBit(cmsg, b)
  /\ cstage' = "corrupted"
  /\ UNCHANGED <<cin, runVars>>

\* the verdict of send_ping's checksum test on the message at hand
CodecValidate ==
  /\ cstage \in {"built", "received", "corrupted"}
  /\ cstage' = IF ValidReply(cmsg)
               THEN (IF cstage = "corrupted" THEN "corrupted_accepted" ELSE "accepted")
               ELSE (IF cstage = "corrupted" THEN "corrupted_rejected" ELSE "rejected")
  /\ UNCHANGED <<cin, cmsg, runVars>>

CodecNext ==
  CodecBuild \/ CodecDraft \/ CodecReceive \/ CodecCorrupt \/ CodecValidate

(* ============================== The run ================================ *)

Tid == 1..MaxCount

NoMsg == <<>>

Finished(i) == tpc[i] \in {"done", "died"}

\* A thread that can take a step now (it is not waiting for the clock).
Runnable(i) ==
  \/ tpc[i] \in {"ready", "build", "req_load", "req_store", "to_load",
                 "to_store", "check", "rep_load", "rep_store", "close"}
  \/ tpc[i] \in {"timer", "recv"} /\ now >= deadline[i]

RunBlocked ==
  \/ rpc \in {"finished", "crashed"}
  \/ rpc = "join" /\ ~Finished(thread_list[jidx])

\* Python's round() of the rational n / d (d > 0): to nearest, ties to even.
Round(n, d) ==
  LET q == n \div d
      r == n - q * d
  IN  IF 2 * r < d THEN q
      ELSE IF 2 * r > d THEN q + 1
      ELSE IF q % 2 = 0 THEN q ELSE q + 1

RECURSIVE SeqSum(_)
SeqSum(s) == IF s = <<>> THEN 0 ELSE Head(s) + SeqSum(Tail(s))

SeqMin(s) == CHOOSE x \in {s[k] : k \in 1..Len(s)} : \A k \in 1..Len(s) : x <= s[k]
SeqMax(s) == CHOOSE x \in {s[k] : k \in 1..Len(s)} : \A k \in 1..Len(s) : x >= s[k]

\* summary_statistics(): the figures of the summary block, or ok = FALSE
\* when it raises (ZeroDivisionError on request_count = 0, ValueError on
\* min() of an empty rtt_list).
summary_statistics(endt) ==
  IF request_count = 0 \/ (reply_count # 0 /\ rtt_list = <<>>)
  THEN [ok |-> FALSE, transmitted |-> request_count, received |-> reply_count,
        loss |-> 0, time |-> 0, rtt |-> <<0, 0, 0>>]
  ELSE [ok |-> TRUE,
        transmitted |-> request_count,
        received |-> reply_count,
        loss |-> Round((request_count - reply_count) * 100, request_count),
        time |-> endt - total_start,
        rtt |-> IF reply_count # 0
                THEN <<SeqMin(rtt_list), Round(SeqSum(rtt_list), Len(rtt_list)),
                       SeqMax(rtt_list)>>
                ELSE <<0, 0, 0>>]

\* The datagrams the destination may send back for a request: the request
\* echoed unmodified, or with one bit inverted.
Replies(m) == {m} \cup {FlipBit(m, b) : b \in ReplyFlipBits}

RunIdle ==
  /\ count = 0 /\ period = 0 /\ timeout = 0
  /\ total_start = 0 /\ total_end = 0
  /\ request_count = 0 /\ reply_count = 0
  /\ rtt_list = <<>> /\ thread_list = <<>>
  /\ pid = 0 /\ now = 0
  /\ rpc = "off" /\ seq_num = 0 /\ jidx = 0
  /\ tpc = [i \in Tid |-> "idle"]
  /\ targ = [i \in Tid |-> 0]
  /\ deadline = [i \in Tid |-> 0]
  /\ request_msg = [i \in Tid |-> NoMsg]
  /\ start_time = [i \in Tid |-> 0]
  /\ data = [i \in Tid |-> NoMsg]
  /\ rtt = [i \in Tid |-> 0]
  /\ tmp = [i \in Tid |-> 0]
  /\ sock = [i \in Tid |-> "none"]
  /\ outcome = [i \in Tid |-> "none"]
  /\ console = EmptyBag /\ summaries = <<>> /\ entered = <<>>

\* PingClient.__init__ on the command-line arguments
Init ==
  /\ CodecIdle
  /\ count \in Counts /\ period \in Periods /\ timeout \in Timeouts
  /\ total_start = 0 /\ total_end = 0
  /\ request_count = 0 /\ reply_count = 0
  /\ rtt_list = <<>> /\ thread_list = <<>>
  /\ pid \in Pids /\ now = 0
  /\ rpc = "start" /\ seq_num = 0 /\ jidx = 0
  /\ tpc = [i \in Tid |-> "idle"]
  /\ targ = [i \in Tid |-> 0]
  /\ deadline = [i \in Tid |-> 0]
  /\ request_msg = [i \in Tid |-> NoMsg]
  /\ start_time = [i \in Tid |-> 0]
  /\ data = [i \in Tid |-> NoMsg]
  /\ rtt = [i \in Tid |-> 0]
  /\ tmp = [i \in Tid |-> 0]
  /\ sock = [i \in Tid |-> "none"]
  /\ outcome = [i \in Tid |-> "none"]
  /\ console = EmptyBag /\ summaries = <<>> /\ entered = <<>>

\* what no step of a run changes
cfgVars == <<count, period, timeout, pid, cstage, cin, cmsg>>
threadLocals == <<deadline, request_msg, start_time, data, rtt, tmp>>

(* ------------------------------- run() --------------------------------- *)

\* run(): total_start, seq_num = 1, the first Thread started and listed
RunStartFirst ==
  /\ rpc = "start"
  /\ total_start' = now
  /\ tpc' = [tpc EXCEPT ![1] = "ready"]
  /\ targ' = [targ EXCEPT ![1] = 1]
  /\ thread_list' = Append(thread_list, 1)
  /\ seq_num' = 1 + 1
  /\ rpc' = "loop"
  /\ UNCHANGED <<cfgVars, outcome, total_end, request_count, reply_count, rtt_list, now,
                 jidx, threadLocals, sock, console, summaries, entered>>

\* The interval given to the Timer of the loop.
TimerInterval(n) == period

\* run() without the `seq_num += 1` of its loop
NextSeqNum_stuck(n) == n

\* The sequence number run() has after starting a timer.
NextSeqNum(n) == n + 1

\* one iteration of `for i in range(self.count - 1)`
RunSpawnTimer ==
  /\ rpc = "loop"
  /\ Len(thread_list) - 1 < count - 1
  /\ LET t == Len(thread_list) + 1
     IN  /\ tpc' = [tpc EXCEPT ![t] = "timer"]
         /\ targ' = [targ EXCEPT ![t] = seq_num]
         /\ deadline' = [deadline EXCEPT ![t] = now + TimerInterval(seq_num)]
         /\ thread_list' = Append(thread_list, t)
  /\ seq_num' = NextSeqNum(seq_num)
  /\ UNCHANGED <<cfgVars, outcome, total_start, total_end, request_count, reply_count,
                 rtt_list, now, rpc, jidx, request_msg, start_time, data, rtt,
                 tmp, sock, console, summaries, entered>>

\* `if len(self.thread_list) == self.count`
JoinGuard == Len(thread_list) = count

\* the loop is over: the guard of the join block
RunJoinGuard ==
  /\ rpc = "loop"
  /\ ~(Len(thread_list) - 1 < count - 1)
  /\ IF JoinGuard
     THEN rpc' = "join" /\ jidx' = 1
     ELSE rpc' = "summary" /\ jidx' = jidx
  /\ UNCHANGED <<cfgVars, outcome, total_start, total_end, request_count, reply_count,
                 rtt_list, thread_list, now, seq_num, tpc, targ, threadLocals,
                 sock, console, summaries, entered>>

\* a join that does not wait for the thread
JoinReturns_nowait(i) == TRUE

\* thread.join() returns once the thread has ended
JoinReturns(i) == Finished(i)

\* `for thread in self.thread_list: thread.join()`
RunJoin ==
  /\ rpc = "join"
  /\ JoinReturns(thread_list[jidx])
  /\ IF jidx = Len(thread_list)
     THEN rpc' = "summary" /\ jidx' = jidx
     ELSE rpc' = "join" /\ jidx' = jidx + 1
  /\ UNCHANGED <<cfgVars, outcome, total_start, total_end, request_count, reply_count,
                 rtt_list, thread_list, now, seq_num, tpc, targ, threadLocals,
                 sock, console, summaries, entered>>

\* total_end, then print(self.summary_statistics())
RunSummary ==
  /\ rpc = "summary"
  /\ total_end' = now
  /\ LET s == summary_statistics(now)
     IN  IF s.ok
         THEN rpc' = "finished" /\ summaries' = Append(summaries, s)
         ELSE rpc' = "crashed" /\ summaries' = summaries
  /\ UNCHANGED <<cfgVars, outcome, total_start, request_count, reply_count, rtt_list,
                 thread_list, now, seq_num, jidx, tpc, targ, threadLocals, sock,
                 console, entered>>

(* ----------------------------- send_ping ------------------------------- *)

\* print(line) by a probe
Printed(line) == console (+) SetToBag({line})

ClearLocals(i) ==
  /\ deadline' = [deadline EXCEPT ![i] = 0]
  /\ request_msg' = [request_msg EXCEPT ![i] = NoMsg]
  /\ start_time' = [start_time EXCEPT ![i] = 0]
  /\ data' = [data EXCEPT ![i] = NoMsg]
  /\ rtt' = [rtt EXCEPT ![i] = 0]
  /\ tmp' = [tmp EXCEPT ![i] = 0]

\* The request, its send time and the receive deadline are not read again
\* once recvfrom has returned or timed out (a local is dropped from the
\* state after its last use).
DropRequest(i) ==
  /\ deadline' = [deadline EXCEPT ![i] = 0]
  /\ request_msg' = [request_msg EXCEPT ![i] = NoMsg]
  /\ start_time' = [start_time EXCEPT ![i] = 0]

\* An exception other than socket.timeout leaves send_ping through no
\* handler: the thread ends there, its socket is not closed by the code.
Dies(i) ==
  /\ tpc' = [tpc EXCEPT ![i] = "died"]
  /\ ClearLocals(i)

\* Timer.run(): the interval has passed, function(*args) is called
TimerFire(i) ==
  /\ tpc[i] = "timer"
  /\ now >= deadline[i]
  /\ tpc' = [tpc EXCEPT ![i] = "ready"]
  /\ UNCHANGED <<cfgVars, outcome, total_start, total_end, request_count, reply_count,
                 rtt_list, thread_list, now, rpc, seq_num, jidx, targ,
                 threadLocals, sock, console, summaries, entered>>

\* send_ping begins: socket created, bound, timeout set; 'PING' printed by
\* the probe with seq_num 1
Socket(i) ==
  /\ tpc[i] = "ready"
  /\ sock' = [sock EXCEPT ![i] = "open"]
  /\ entered' = Append(entered, [seq |-> targ[i], at |-> now])
  /\ console' = IF targ[i] = 1
                THEN Printed([kind |-> "PING", seq |-> 0, time |-> 0])
                ELSE console
  /\ tpc' = [tpc EXCEPT ![i] = "build"]
  /\ UNCHANGED <<cfgVars, outcome, total_start, total_end, request_count, reply_count,
                 rtt_list, thread_list, now, rpc, seq_num, jidx, targ,
                 threadLocals, summaries>>

\* gethostbyname or bind raises (the random port is taken, ...)
SocketFail(i) ==
  /\ tpc[i] = "ready"
  /\ sock' = [sock EXCEPT ![i] = "open"]
  /\ entered' = Append(entered, [seq |-> targ[i], at |-> now])
  /\ Dies(i)
  /\ UNCHANGED <<cfgVars, outcome, total_start, total_end, request_count, reply_count,
                 rtt_list, thread_list, now, rpc, seq_num, jidx, targ,
                 console, summaries>>

\* request_msg = self.build_message(seq_num) at some wall-clock time,
\* start_time taken, sendto succeeds, recvfrom begins its wait
Transmit(i) ==
  /\ tpc[i] = "build"
  /\ \E ts \in Timestamps :
       LET r == build_message(targ[i], pid, ts)
       IN  IF r.ok
           THEN /\ request_msg' = [request_msg EXCEPT ![i] = r.msg]
                /\ start_time' = [start_time EXCEPT ![i] = now]
                /\ deadline' = [deadline EXCEPT ![i] = now + timeout]
                /\ tpc' = [tpc EXCEPT ![i] = "recv"]
                /\ UNCHANGED <<data, rtt, tmp>>
           ELSE Dies(i)
  /\ UNCHANGED <<cfgVars, outcome, total_start, total_end, request_count, reply_count,
                 rtt_list, thread_list, now, rpc, seq_num, jidx, targ,
                 sock, console, summaries, entered>>

\* sendto raises an OSError
SendFail(i) ==
  /\ tpc[i] = "build"
  /\ Dies(i)
  /\ UNCHANGED <<cfgVars, outcome, total_start, total_end, request_count, reply_count,
                 rtt_list, thread_list, now, rpc, seq_num, jidx, targ,
                 sock, console, summaries, entered>>

\* recvfrom returns a datagram before the timeout; end_time, rtt,
\* rtt_list.append(rtt)
RecvData(i) ==
  /\ tpc[i] = "recv"
  /\ now < deadline[i]
  /\ \E d \in Replies(request_msg[i]) : data' = [data EXCEPT ![i] = d]
  /\ rtt' = [rtt EXCEPT ![i] = now - start_time[i]]
  /\ rtt_list' = Append(rtt_list, now - start_time[i])
  /\ tpc' = [tpc EXCEPT ![i] = "req_load"]
  /\ DropRequest(i)
  /\ UNCHANGED <<cfgVars, outcome, total_start, total_end, request_count, reply_count,
                 thread_list, now, rpc, seq_num, jidx, targ, tmp, sock,
                 console, summaries, entered>>

\* recvfrom raises socket.timeout: control goes to the except clause
RecvTimeout(i) ==
  /\ tpc[i] = "recv"
  /\ now >= deadline[i]
  /\ tpc' = [tpc EXCEPT ![i] = "to_load"]
  /\ outcome' = [outcome EXCEPT ![i] = "TimedOut"]
  /\ DropRequest(i)
  /\ UNCHANGED <<cfgVars, total_start, total_end, request_count, reply_count,
                 rtt_list, thread_list, now, rpc, seq_num, jidx, targ,
                 data, rtt, tmp, sock, console, summaries, entered>>

\* recvfrom raises an OSError that is no timeout
RecvFail(i) ==
  /\ tpc[i] = "recv"
  /\ Dies(i)
  /\ UNCHANGED <<cfgVars, outcome, total_start, total_end, request_count, reply_count,
                 rtt_list, thread_list, now, rpc, seq_num, jidx, targ,
                 sock, console, summaries, entered>>

\* `self.request_count += 1`, first half: the attribute is read
LoadRequestCount(i) ==
  /\ tpc[i] \in {"req_load", "to_load"}
  /\ tmp' = [tmp EXCEPT ![i] = request_count]
  /\ tpc' = [tpc EXCEPT ![i] = IF tpc[i] = "req_load" THEN "req_store" ELSE "to_store"]
  /\ UNCHANGED <<cfgVars, outcome, total_start, total_end, request_count, reply_count,
                 rtt_list, thread_list, now, rpc, seq_num, jidx, targ, deadline,
                 request_msg, start_time, data, rtt, sock, console, summaries,
                 entered>>

\* `self.request_count += 1`, second half: the sum is stored
StoreRequestCount(i) ==
  /\ tpc[i] \in {"req_store", "to_store"}
  /\ request_count' = tmp[i] + 1
  /\ tpc' = [tpc EXCEPT ![i] = IF tpc[i] = "req_store" THEN "check" ELSE "close"]
  /\ tmp' = [tmp EXCEPT ![i] = 0]
  /\ UNCHANGED <<cfgVars, outcome, total_start, total_end, reply_count,
                 rtt_list, thread_list, now, rpc, seq_num, jidx, targ,
                 deadline, request_msg, start_time, data, rtt, sock, console,
                 summaries, entered>>

\* server_checksum, server_seq_num, and the line printed for the reply
CheckReply(i) ==
  /\ tpc[i] = "check"
  /\ IF ValidReply(data[i])
     THEN /\ console' = Printed([kind |-> "PONG",
                                   seq |-> ServerSeqNum(data[i]),
                                   time |-> rtt[i]])
          /\ tpc' = [tpc EXCEPT ![i] = "rep_load"]
          /\ outcome' = [outcome EXCEPT ![i] = "Replied"]
     ELSE /\ console' = Printed([kind |-> "WARNING",
                                   seq |-> ServerSeqNum(data[i]),
                                   time |-> 0])
          /\ tpc' = [tpc EXCEPT ![i] = "close"]
          /\ outcome' = [outcome EXCEPT ![i] = "ChecksumInvalid"]
  /\ data' = [data EXCEPT ![i] = NoMsg]
  /\ rtt' = [rtt EXCEPT ![i] = 0]
  /\ UNCHANGED <<cfgVars, total_start, total_end, request_count, reply_count,
                 rtt_list, thread_list, now, rpc, seq_num, jidx, targ,
                 deadline, request_msg, start_time, tmp, sock, summaries,
                 entered>>

\* `self.reply_count += 1`, first half
LoadReplyCount(i) ==
  /\ tpc[i] = "rep_load"
  /\ tmp' = [tmp EXCEPT ![i] = reply_count]
  /\ tpc' = [tpc EXCEPT ![i] = "rep_store"]
  /\ UNCHANGED <<cfgVars, outcome, total_start, total_end, request_count, reply_count,
                 rtt_list, thread_list, now, rpc, seq_num, jidx, targ, deadline,
                 request_msg, start_time, data, rtt, sock, console, summaries,
                 entered>>

\* `self.reply_count += 1`, second half
StoreReplyCount(i) ==
  /\ tpc[i] = "rep_store"
  /\ reply_count' = tmp[i] + 1
  /\ tpc' = [tpc EXCEPT ![i] = "close"]
  /\ tmp' = [tmp EXCEPT ![i] = 0]
  /\ UNCHANGED <<cfgVars, outcome, total_start, total_end, request_count,
                 rtt_list, thread_list, now, rpc, seq_num, jidx, targ,
                 deadline, request_msg, start_time, data, rtt, sock, console,
                 summaries, entered>>

\* client_sock.close(), and send_ping returns
Close(i) ==
  /\ tpc[i] = "close"
  /\ sock' = [sock EXCEPT ![i] = "closed"]
  /\ tpc' = [tpc EXCEPT ![i] = "done"]
  /\ ClearLocals(i)
  /\ UNCHANGED <<cfgVars, outcome, total_start, total_end, request_count, reply_count,
                 rtt_list, thread_list, now, rpc, seq_num, jidx, targ,
                 console, summaries, entered>>

\* The clock advances while every thread is blocked and no deadline is due.
Tick ==
  /\ RunBlocked
  /\ \A i \in Tid : ~Runnable(i)
  /\ \E i \in Tid : tpc[i] \in {"timer", "recv"}
  /\ now' = now + 1
  /\ UNCHANGED <<cfgVars, outcome, total_start, total_end, request_count, reply_count,
                 rtt_list, thread_list, rpc, seq_num, jidx, tpc, targ,
                 threadLocals, sock, console, summaries, entered>>

ThreadStep(i) ==
  \/ TimerFire(i) \/ Socket(i) \/ SocketFail(i) \/ Transmit(i)
  \/ SendFail(i) \/ RecvData(i) \/ RecvTimeout(i) \/ RecvFail(i)
  \/ LoadRequestCount(i) \/ StoreRequestCount(i) \/ CheckReply(i)
  \/ LoadReplyCount(i) \/ StoreReplyCount(i) \/ Close(i)

Next ==
  \/ RunStartFirst \/ RunSpawnTimer \/ RunJoinGuard \/ RunJoin \/ RunSummary
  \/ \E i \in Tid : ThreadStep(i)
  \/ Tick

Spec == Init /\ [][Next]_vars

\* the codec alone: no run is started
InitCodec == RunIdle /\ CodecInit

SpecCodec == InitCodec /\ [][CodecNext]_vars

(* =============================== Claims ================================ *)

\* run() is past its join block.
Joined == rpc \in {"summary", "finished", "crashed"}

\* Thread i is between the start of send_ping and its end.
InFlight(i) ==
  tpc[i] \in {"build", "recv", "req_load", "req_store", "to_load", "to_store",
              "check", "rep_load", "rep_store", "close"}

Started == {thread_list[k] : k \in 1..Len(thread_list)}

\* The reference one's-complement sum: 16-bit big-endian words added, the
\* carry folded back until none remains.
RECURSIVE Fold(_)
Fold(s) == IF s < Word THEN s ELSE Fold((s % Word) + (s \div Word))

RECURSIVE WordSum(_, _)
WordSum(m, i) ==
  IF i >= Len(m) THEN 0 ELSE m[i] * 256 + m[i + 1] + WordSum(m, i + 2)

OnesComplementSum(m) == Fold(WordSum(m, 1))

\* C1: once run() has joined all probe threads of a run with N >= 1 whose
\* probes all ended by a valid reply, a checksum-invalid reply or a timeout,
\* request_count equals N, whatever the interleaving of the probes.
C1_SentEqualsN ==
  (count >= 1 /\ Joined /\ \A i \in Started : tpc[i] = "done")
    => request_count = count

\* C2: with N >= 1, when run() is about to call summary_statistics (and from
\* then on) the join guard holds, all N probes were started and every one of
\* them has finished send_ping or died.
C2_SummaryAfterAllProbes ==
  (count >= 1 /\ Joined)
    => /\ JoinGuard
       /\ Started = 1..count
       /\ \A i \in 1..count : Finished(i)

\* C2 witness: a three-probe run printed its summary after one probe
\* completed and another died.
C2_Witness ==
  /\ count = MaxCount
  /\ rpc = "finished"
  /\ \E i, j \in 1..count : tpc[i] = "done" /\ tpc[j] = "died"

\* C3: probe k enters send_ping at offset (k - 1) * period from run start.
C3_FixedSchedule ==
  \A k \in 1..Len(entered) :
    entered[k].at = total_start + (entered[k].seq - 1) * period

\* C4: probes enter send_ping in strictly increasing order of sequence
\* number.
C4_DispatchInOrder ==
  \A a, b \in 1..Len(entered) : a < b => entered[a].seq < entered[b].seq

\* C5: when period >= timeout, at most one probe is in flight.
C5_NoOverlap ==
  period >= timeout => Cardinality({i \in Tid : InFlight(i)}) <= 1

\* C6: build_message succeeds on every draft, and the message it returns has
\* 14 bytes and calculate_checksum 0xFFFF.
C6_BuildRoundTrip ==
  /\ cstage # "raised"
  /\ cstage = "built" => Len(cmsg) = MsgLen /\ calculate_checksum(cmsg) = AllOnes

\* C7: a probe that ends by a failure other than a timeout is still counted
\* as sent, once, and not as replied: after a run with N >= 1 all of whose
\* probes ended so, request_count = N and reply_count = 0.
C7_FailureContained ==
  (count >= 1 /\ Joined /\ \A i \in Started : tpc[i] = "died")
    => request_count = count /\ reply_count = 0

\* C8: a run with N >= 1 that has ended has printed exactly one summary
\* block.
C8_OneSummary ==
  (count >= 1 /\ rpc \in {"finished", "crashed"}) => Len(summaries) = 1

\* C9: no sequence number is given to two send_ping invocations, each is in
\* 1..N, and once the N >= 1 probes have been joined every value of 1..N
\* has been given to one.
C9_SeqNumsExactly1toN ==
  /\ \A a, b \in 1..Len(entered) : a # b => entered[a].seq # entered[b].seq
  /\ count >= 1 => \A a \in 1..Len(entered) : entered[a].seq \in 1..count
  /\ (count >= 1 /\ Joined) => {entered[a].seq : a \in 1..Len(entered)} = 1..count

\* C9 witness: a joined three-probe run in which probe 3 entered send_ping
\* before probe 2.
C9_Witness ==
  /\ count = MaxCount
  /\ Joined
  /\ Len(entered) = count
  /\ entered[2].seq = count

\* C10: the validity test accepts a message iff its one's-complement sum is
\* 0xFFFF, and rejects a built message with any one bit inverted.
C10_ValidateReply ==
  /\ cstage \in {"accepted", "corrupted_accepted"} => OnesComplementSum(cmsg) = AllOnes
  /\ cstage \in {"rejected", "corrupted_rejected"} => OnesComplementSum(cmsg) # AllOnes
  /\ cstage # "corrupted_accepted"

\* C10 witness: a built message whose last bit was inverted has been
\* rejected.
C10_Witness ==
  /\ cstage = "corrupted_rejected"
  /\ build_message(cin.seq, cin.pid, cin.ts).ok
  /\ cmsg = FlipBit(build_message(cin.seq, cin.pid, cin.ts).msg, 8 * MsgLen - 1)

\* The number of lines of one kind the probes printed.
LineCount(k) ==
  BagCardinality([e \in {x \in BagToSet(console) : x.kind = k} |-> console[e]])

\* The number of probes that ended in outcome o.
OutcomeCount(o) == Cardinality({i \in Tid : outcome[i] = o})

\* C11: a probe whose reply fails the checksum test prints one warning line,
\* is counted as sent and not as replied: with N = 3 and only the reply to
\* sequence 2 corrupted, by one bit, the joined run has printed exactly one
\* warning line, which names sequence 2, and has reply_count 2 and
\* request_count 3.
C11_ChecksumInvalidScenario ==
  /\ LineCount("WARNING") = OutcomeCount("ChecksumInvalid")
  /\ (/\ count = 3
      /\ Joined
      /\ \A i \in Started :
           outcome[i] = IF targ[i] = 2 THEN "ChecksumInvalid" ELSE "Replied")
     => /\ LineCount("WARNING") = 1
        /\ CopiesIn([kind |-> "WARNING", seq |-> 2, time |-> 0], console) = 1
        /\ reply_count = 2
        /\ request_count = 3

\* C12: when every probe of a run with N >= 1 timed out, the summary block
\* reports N transmitted, 0 received, 100% loss and rtt 0/0/0.
C12_AllLost ==
  (count >= 1 /\ Joined /\ \A i \in Started : outcome[i] = "TimedOut")
    => /\ rpc # "crashed"
       /\ rpc = "finished" =>
            /\ Len(summaries) = 1
            /\ summaries[1].transmitted = count
            /\ summaries[1].received = 0
            /\ summaries[1].loss = 100
            /\ summaries[1].rtt = <<0, 0, 0>>

\* C13: on every even-length message calculate_checksum returns a value in
\* 0..0xFFFF, the reference one's-complement sum of the message.
C13_ChecksumIsOnesComplementSum ==
  (Len(cmsg) % 2 = 0)
    => /\ calculate_checksum(cmsg) \in 0..AllOnes
       /\ calculate_checksum(cmsg) = OnesComplementSum(cmsg)

\* C14: with period < timeout, once every probe thread is joined reply_count
\* is the number of probes that reached Replied, whatever the interleaving.
C14_ReplyCountExact ==
  (count >= 1 /\ Joined /\ period < timeout)
    => reply_count = OutcomeCount("Replied")

\* C15: every dispatched probe that has ended has reached exactly one of
\* Replied, ChecksumInvalid and TimedOut.
C15_TerminalOutcome ==
  \A i \in Tid :
    (count >= 1 /\ Finished(i)) => outcome[i] \in {"Replied", "ChecksumInvalid", "TimedOut"}

\* C16: once every probe thread is joined rtt_list holds one sample per
\* counted reply: the probes that timed out or failed the checksum test
\* added none.
C16_OneSamplePerReply ==
  (count >= 1 /\ Joined)
    => /\ Len(rtt_list) = reply_count
       /\ Len(rtt_list) = OutcomeCount("Replied")

\* C17: always 0 <= reply_count <= request_count <= N, so the loss any
\* summary block reports lies in 0..100.
C17_CountersOrdered ==
  (count >= 1)
    => /\ 0 <= reply_count
       /\ reply_count <= request_count
       /\ request_count <= count
       /\ \A k \in 1..Len(summaries) :
            summaries[k].ok => summaries[k].loss \in 0..100

\* C18: the 'PING' announcement is printed exactly once per run: a joined
\* run of N >= 1 probes has printed one PING line.
C18_OneAnnouncement ==
  /\ LineCount("PING") <= 1
  /\ (count >= 1 /\ Joined) => LineCount("PING") = 1

\* C19: every socket send_ping created is closed by the time the summary is
\* computed, whichever way its probe ended.
C19_SocketsClosed ==
  (count >= 1 /\ Joined) => \A i \in Tid : sock[i] # "open"

====
